---- MODULE Spec2Model ----
(***************************************************************************)
(* Salesforce access layer of Agno_poc: tools/salesforce_tool.py and       *)
(* tools/opp_salesforce_tools.py.                                          *)
(*                                                                         *)
(* One tool invocation runs at a time (the tools are blocking functions).  *)
(* Every HTTP exchange is one step: the tool sends a request, the remote   *)
(* side answers with any status and body of the response sets below.       *)
(*                                                                         *)
(* Python values:                                                          *)
(*   dict          a function; d.get(k, v) is Get(d, k, v); d[k] needs k   *)
(*                 in DOMAIN d (the record sets below always carry the     *)
(*                 keys the code subscripts, and leave out, in some        *)
(*                 elements, the keys the code reads with .get)            *)
(*   {1: a, 2: b}  a sequence (a function on 1..N); {} is << >>            *)
(*   f-string      a record: msg names the template, the other fields are  *)
(*                 the interpolated values, unchanged                      *)
(*   (text, options)  the pair a list tool returns: Pair(text, options), a *)
(*                 record of the two components                           *)
(*   return / raise  Return(v) / Raise(e)                                  *)
(***************************************************************************)
EXTENDS Integers, Sequences, FiniteSets, TLC

\* Longest records array a query response carries.
MaxRecords == 2

\* ------------------------------------------------------------------ values
None == "None"
NotAvailable == "Not Available"

Return(v) == [kind |-> "return", value |-> v]
Raise(e) == [kind |-> "raise", value |-> e]

Pair(formatted, options) == [formatted |-> formatted, options |-> options]

Get(d, k, default) == IF k \in DOMAIN d THEN d[k] ELSE default

EmptyDict == [k \in {} |-> None]

\* ------------------------------------------------ what the remote side sends
Statuses == {200, 201, 204, 404}
ErrorTexts == {"INVALID_SESSION_ID", "NOT_FOUND"}
AccessTokens == {"tokA", "tokB"}
InstanceUrl == "https://na1.salesforce.com"

Response(s, t, j) == [status |-> s, text |-> t, json |-> j]

\* Bodies of the token endpoint: access_token and instance_url, either of
\* which a malformed body may lack.
TokenBodies ==
    {[access_token |-> t, instance_url |-> InstanceUrl] : t \in AccessTokens}
        \cup {[instance_url |-> InstanceUrl]}
        \cup {[access_token |-> "tokA"]}

TokenResponses ==
    {Response(200, "json", j) : j \in TokenBodies}
        \cup {Response(s, t, EmptyDict) : s \in Statuses \ {200}, t \in ErrorTexts}

Stages == {"Prospecting", "Closed Won"}

OpportunityRows ==
    { [Id |-> "006A", Name |-> "Acme Deal", StageName |-> "Prospecting",
       CloseDate |-> "2024-01-01", Amount |-> 1000],
      [Id |-> "006B", Name |-> "Beta Deal", StageName |-> "Closed Won",
       CloseDate |-> "2024-02-01", Amount |-> 2000],
      [Id |-> "006C", Name |-> "Gamma Deal", StageName |-> "Prospecting",
       CloseDate |-> "2024-03-01", Amount |-> 3000] }

LeadRows ==
    { [Id |-> "00Q1", FirstName |-> "Ada", LastName |-> "Lovelace",
       Company |-> "Analytical", Email |-> "ada@example.com", LeadSource |-> "Web"],
      [Id |-> "00Q2", LastName |-> "Hopper", Company |-> "Navy"] }

CommentRows ==
    { [Id |-> "00a1", CommentBody |-> "Called customer", CreatedDate |-> "2024-01-02"],
      [Id |-> "00a2", CommentBody |-> "Sent patch", CreatedDate |-> "2024-01-03"] }

SeqsUpTo(S, n) == UNION {[1..k -> S] : k \in 0..n}

\* Answers of the query endpoint: 200 with a records array (possibly empty),
\* 200 without one, or another status with an error text.
QueryResponses(rows) ==
    {Response(200, "json", [records |-> r]) : r \in SeqsUpTo(rows, MaxRecords)}
        \cup {Response(200, "json", EmptyDict)}
        \cup {Response(s, t, EmptyDict) : s \in Statuses \ {200}, t \in ErrorTexts}

OpportunityIds == {r.Id : r \in OpportunityRows}

\* Answers of GET sobjects/Opportunity/{id}. StageName, Amount and CloseDate
\* are read with .get and may be missing.
OpportunityBodies(id) ==
    LET row == CHOOSE r \in OpportunityRows : r.Id = id
    IN  {[Id |-> id, Name |-> row.Name, StageName |-> s,
          CloseDate |-> row.CloseDate, Amount |-> row.Amount] : s \in Stages}
            \cup {[Id |-> id, Name |-> row.Name,
                   CloseDate |-> row.CloseDate, Amount |-> row.Amount]}
            \cup {[Id |-> id, Name |-> row.Name, StageName |-> row.StageName]}

OpportunityResponses(id) ==
    {Response(200, "json", j) : j \in OpportunityBodies(id)}
        \cup {Response(s, t, EmptyDict) : s \in Statuses \ {200}, t \in ErrorTexts}

LeadIds == {"00Q1"}

LeadBodies(id) ==
    { [Id |-> id, FirstName |-> "Ada", LastName |-> "Lovelace",
       Company |-> "Analytical", Email |-> "ada@example.com", Phone |-> "555",
       LeadSource |-> "Web", Status |-> "Open"],
      [Id |-> id, LastName |-> "Hopper"] }

LeadResponses(id) ==
    {Response(200, "json", j) : j \in LeadBodies(id)}
        \cup {Response(s, t, EmptyDict) : s \in Statuses \ {200}, t \in ErrorTexts}

\* Answers to POST, PATCH and DELETE: a 201 carries the created record's id,
\* a 204 has no content.
WriteResponses ==
    {Response(201, "json", [id |-> "500Z"]), Response(204, "", EmptyDict)}
        \cup {Response(s, t, EmptyDict) : s \in Statuses \ {201, 204}, t \in ErrorTexts}

\* ------------------------------------------------ what the caller passes in
CaseNumbers == {"00001001"}
CaseIds == {"500Z"}
CaseFields == {[subject |-> "X", description |-> "Y", priority |-> "High"]}
SoqlQueries == {"SELECT Id FROM Account", "SELECT Id FROM Contact"}
NewStages == Stages \cup {NotAvailable}
Choices == 0..(MaxRecords + 1)


\* ------------------------------------------------------------- HTTP requests
ApiVersion == "v57.0"
AuthUrl == "https://login.salesforce.com/services/oauth2/token"

\* requests.post(auth_url, data=data)
TokenRequest ==
    [method |-> "POST", base |-> AuthUrl, version |-> "", path |-> "", id |-> "",
     auth |-> "", payload |-> "grant_type=password"]

\* A request on f'{instance_url}/services/data/{api_version}/{path}[/{id}]'
\* with the header Authorization: f'Bearer {access_token}'.
ApiRequest(m, sess, p, i, body) ==
    [method |-> m, base |-> sess[2], version |-> ApiVersion, path |-> p, id |-> i,
     auth |-> sess[1], payload |-> body]

\* With instance_url None the URL is 'None/services/...': it has no scheme,
\* requests raises MissingSchema while preparing it and nothing is sent.
NoScheme(sess) == sess[2] = None

MissingSchema == [type |-> "MissingSchema", msg |-> "Invalid URL: No scheme supplied"]

\* ----------------------------------------------------------- salesforce_tool
sf_get_access_token(response) ==
    IF response.status = 200
    THEN Return(<<Get(response.json, "access_token", None),
                  Get(response.json, "instance_url", None)>>)
    ELSE Raise([type |-> "Exception", msg |-> "Error fetching access token",
                status |-> response.status, text |-> response.text])

CaseCommentsQuery(case_number) ==
    [soql |-> "SELECT Id, CommentBody, CreatedDate FROM CaseComment WHERE ParentId IN (SELECT Id FROM Case WHERE CaseNumber = '{case_number}')",
     case_number |-> case_number]

fetch_case_comments(case_number, response) ==
    IF response.status = 200
    THEN LET case_comments == Get(response.json, "records", << >>)
         IN  IF case_comments = << >>
             THEN Return([msg |-> "No comments found for this case number."])
             ELSE Return([msg |-> "Case Comments Retrieved Successfully!",
                          case_number |-> case_number,
                          comments |->
                              [i \in 1..Len(case_comments) |->
                                  [comment |-> case_comments[i].CommentBody,
                                   created_on |-> case_comments[i].CreatedDate]]])
    ELSE Return([msg |-> "Error fetching case comments",
                 status |-> response.status, text |-> response.text])

CaseData(f) ==
    [Subject |-> f.subject, Description |-> f.description,
     Priority |-> f.priority, Status |-> "New", Origin |-> "Web"]

create_case_in_salesforce(f, response) ==
    IF response.status = 201
    THEN Return([msg |-> "Case Created Successfully!",
                 case_id |-> Get(response.json, "id", None),
                 subject |-> f.subject, description |-> f.description,
                 priority |-> f.priority])
    ELSE Return([msg |-> "Error creating case",
                 status |-> response.status, text |-> response.text])

\* delete_case_in_salesforce taking every 2xx status for a success.
delete_case_in_salesforce_any_2xx(case_id, response) ==
    IF response.status \in 200..299
    THEN Return([msg |-> "Case was deleted successfully!", case_id |-> case_id])
    ELSE Return([msg |-> "Error deleting the case", case_id |-> case_id,
                 status |-> response.status, text |-> response.text])

delete_case_in_salesforce(case_id, response) ==
    IF response.status = 204
    THEN Return([msg |-> "Case was deleted successfully!", case_id |-> case_id])
    ELSE Return([msg |-> "Error deleting the case", case_id |-> case_id,
                 status |-> response.status, text |-> response.text])

\* The records read under a misspelt key: always the default.
execute_soql_query_records_wrong_key(response) == Get(response.json, "record", << >>)

\* execute_soql_query up to line 202, where the source file ends: on 200 the
\* records array is read, an absent array as [].
execute_soql_query_records(response) == Get(response.json, "records", << >>)

\* The rest of execute_soql_query, after section 4.2 of the specification:
\* the records are the result of a 200, any other status fails with a
\* QueryError of the status and the body.
execute_soql_query(soql_query, response) ==
    IF response.status = 200
    THEN Return(execute_soql_query_records(response))
    ELSE Raise([type |-> "QueryError", status |-> response.status,
                text |-> response.text])

\* ------------------------------------------------------ opp_salesforce_tools
\* get_access_token taking every 2xx status for a success.
get_access_token_any_2xx(response) ==
    IF response.status \in 200..299
    THEN Return(<<Get(response.json, "access_token", None),
                  Get(response.json, "instance_url", None)>>)
    ELSE Raise([type |-> "Exception", msg |-> "Error fetching access token",
                status |-> response.status, text |-> response.text])

get_access_token(response) ==
    IF response.status = 200
    THEN Return(<<Get(response.json, "access_token", None),
                  Get(response.json, "instance_url", None)>>)
    ELSE Raise([type |-> "Exception", msg |-> "Error fetching access token",
                status |-> response.status, text |-> response.text])

generate_lifecycle_transition_prompt(opportunity_name, current_stage, new_stage) ==
    [msg |-> "You are a Salesforce assistant. ...",
     opportunity_name |-> opportunity_name,
     current_stage |-> current_stage, new_stage |-> new_stage]

OpportunitiesQuery == "SELECT Id, Name, StageName, CloseDate, Amount FROM Opportunity"

\* The formatter with enumerate(records) left at its default start of 0.
FormatOpportunities_from_zero(records) ==
    [formatted |->
        [msg |-> "Opportunities Retrieved Successfully!",
         entries |-> [index \in 1..Len(records) |->
                         [option |-> index - 1, name |-> records[index].Name,
                          close_date |-> records[index].CloseDate,
                          amount |-> records[index].Amount,
                          stage |-> records[index].StageName]]],
     options |-> [index \in 0..(Len(records) - 1) |-> records[index + 1].Id]]

\* for index, record in enumerate(records, start=1): the display text gets
\* one "Option {index}" block and opportunity_options[index] = record['Id'].
FormatOpportunities(records) ==
    Pair([msg |-> "Opportunities Retrieved Successfully!",
        entries |-> [index \in 1..Len(records) |->
                        [option |-> index, name |-> records[index].Name,
                         close_date |-> records[index].CloseDate,
                         amount |-> records[index].Amount,
                         stage |-> records[index].StageName]]],
         [index \in 1..Len(records) |-> records[index].Id])

fetch_opportunities(response) ==
    IF response.status = 200
    THEN LET records == Get(response.json, "records", << >>)
         IN  IF records = << >>
             THEN Return(Pair([msg |-> "No opportunities found."], << >>))
             ELSE Return(FormatOpportunities(records))
    ELSE Return(Pair([msg |-> "Error fetching opportunities",
                      status |-> response.status, text |-> response.text], << >>))

fetch_opportunity_details(opportunity_id, response) ==
    IF response.status = 200
    THEN Return(response.json)
    ELSE Raise([type |-> "Exception", msg |-> "Error fetching opportunity details",
                status |-> response.status, text |-> response.text])

update_opportunity_stage(opportunity_id, new_stage, response) ==
    IF response.status = 204
    THEN Return([msg |-> "Opportunity stage successfully updated", new_stage |-> new_stage])
    ELSE Return([msg |-> "Failed to update stage",
                 status |-> response.status, text |-> response.text])

LeadsQuery == "SELECT Id, FirstName, LastName, Company, Email, LeadSource FROM Lead"

FormatLeads(records) ==
    Pair([msg |-> "Leads Retrieved Successfully!",
        entries |-> [index \in 1..Len(records) |->
                        [option |-> index,
                         first_name |-> Get(records[index], "FirstName", ""),
                         last_name |-> Get(records[index], "LastName", ""),
                         company |-> Get(records[index], "Company", ""),
                         email |-> Get(records[index], "Email", ""),
                         lead_source |-> Get(records[index], "LeadSource", "")]]],
         [index \in 1..Len(records) |-> records[index].Id])

\* fetch_leads testing `records is None` where the code tests `not records`:
\* an empty array goes on to the formatter.
fetch_leads_formats_empty(response) ==
    IF response.status = 200
    THEN Return(FormatLeads(Get(response.json, "records", << >>)))
    ELSE Return(Pair([msg |-> "Error fetching leads",
                      status |-> response.status, text |-> response.text], << >>))

fetch_leads(response) ==
    IF response.status = 200
    THEN LET records == Get(response.json, "records", << >>)
         IN  IF records = << >>
             THEN Return(Pair([msg |-> "No leads found."], << >>))
             ELSE Return(FormatLeads(records))
    ELSE Return(Pair([msg |-> "Error fetching leads",
                      status |-> response.status, text |-> response.text], << >>))

get_lead_details(lead_id, response) ==
    IF response.status = 200
    THEN LET lead_details == response.json
         IN  Return([msg |-> "Lead Details",
                     first_name |-> Get(lead_details, "FirstName", ""),
                     last_name |-> Get(lead_details, "LastName", ""),
                     company |-> Get(lead_details, "Company", ""),
                     email |-> Get(lead_details, "Email", ""),
                     phone |-> Get(lead_details, "Phone", ""),
                     lead_source |-> Get(lead_details, "LeadSource", ""),
                     status |-> Get(lead_details, "Status", "")])
    ELSE Return([msg |-> "Error fetching lead details",
                 status |-> response.status, text |-> response.text])

get_lead_email_info(lead_id, response) ==
    IF response.status = 200
    THEN LET lead_details == response.json
         IN  Return([first_name |-> Get(lead_details, "FirstName", ""),
                     last_name |-> Get(lead_details, "LastName", ""),
                     company |-> Get(lead_details, "Company", ""),
                     lead_source |-> Get(lead_details, "LeadSource", ""),
                     email |-> Get(lead_details, "Email", "")])
    ELSE Raise([type |-> "Exception", msg |-> "Error fetching lead details",
                status |-> response.status, text |-> response.text])


\* The body of validate_and_update_lifecycle_transition between its calls.
\* Call(f, a) stands for a call the workflow makes next.
Call(f, a) == [kind |-> "call", callee |-> f, args |-> a]

\* validate_choice with the selection off by one position: option 1 for
\* every choice that is no key or is the last key.
validate_choice_misindexed(opportunity_choice, fetched) ==
    IF fetched.options = << >>
    THEN Return(fetched.formatted)
    ELSE Call("fetch_opportunity_details",
              [opportunity_id |->
                  fetched.options[IF opportunity_choice \in 1..(Len(fetched.options) - 1)
                                  THEN opportunity_choice + 1 ELSE 1]])

\* After fetch_opportunities(): the empty mapping and the choice.
validate_choice(opportunity_choice, fetched) ==
    LET formatted_opportunities == fetched.formatted
        opportunity_options == fetched.options
    IN  IF opportunity_options = << >>
        THEN Return(formatted_opportunities)
        ELSE IF opportunity_choice \notin DOMAIN opportunity_options
        THEN Return([msg |-> "Invalid option selected. Please choose a valid option."])
        ELSE Call("fetch_opportunity_details",
                  [opportunity_id |-> opportunity_options[opportunity_choice]])

current_stage_of(opportunity_details) == Get(opportunity_details, "StageName", NotAvailable)

\* check_current_stage without the comparison: the update is always made.
check_current_stage_unguarded(opportunity_id, new_stage, opportunity_details) ==
    [kind |-> "call", callee |-> "update_opportunity_stage",
     args |-> [opportunity_id |-> opportunity_id, new_stage |-> new_stage]]

\* check_current_stage handing the stage it read, not the requested one, to
\* the update.
check_current_stage_swapped(opportunity_id, new_stage, opportunity_details) ==
    IF Get(opportunity_details, "StageName", NotAvailable) = new_stage
    THEN Return([msg |-> "The stage of the opportunity is already set. There's no need to update!",
                 name |-> opportunity_details.Name, new_stage |-> new_stage])
    ELSE [kind |-> "call", callee |-> "update_opportunity_stage",
          args |-> [opportunity_id |-> opportunity_id,
                    new_stage |-> Get(opportunity_details, "StageName", NotAvailable)]]

\* After fetch_opportunity_details(opportunity_id): the stage comparison.
check_current_stage(opportunity_id, new_stage, opportunity_details) ==
    IF current_stage_of(opportunity_details) = new_stage
    THEN Return([msg |-> "The stage of the opportunity is already set. There's no need to update!",
                 name |-> opportunity_details.Name, new_stage |-> new_stage])
    ELSE Call("update_opportunity_stage",
              [opportunity_id |-> opportunity_id, new_stage |-> new_stage])

\* After update_opportunity_stage(opportunity_id, new_stage): the response.
enhanced_response(opportunity_choice, new_stage, opportunity_details, update_message) ==
    [msg |-> "Opportunity Lifecycle Transition",
     selected_option |-> opportunity_choice,
     amount |-> Get(opportunity_details, "Amount", NotAvailable),
     close_date |-> Get(opportunity_details, "CloseDate", NotAvailable),
     new_stage |-> new_stage,
     lifecycle_prompt |->
         generate_lifecycle_transition_prompt(
             opportunity_details.Name, current_stage_of(opportunity_details), new_stage),
     action |-> update_message]

\* --------------------------------------------------------------------- state
VARIABLES
    op,        \* the tool the caller invoked, "idle" when none is running
    args,      \* its arguments
    callee,    \* the function whose authenticate-then-request sequence runs
    cargs,     \* its arguments
    pc,        \* "idle", "auth", "request", "returned" (callee back in the workflow), "done"
    session,   \* (access_token, instance_url) of the running callee
    log,       \* the HTTP requests of this invocation, in order
    replies,   \* the responses to them, in the same order
    ret,       \* what the callee returned to the workflow
    frame,     \* locals of the workflow
    result     \* how the invocation ended: Return(v) or Raise(e)

vars == <<op, args, callee, cargs, pc, session, log, replies, ret, frame, result>>

Lifecycle == "validate_and_update_lifecycle_transition"

SalesforceTool ==
    {"fetch_case_comments", "create_case_in_salesforce",
     "delete_case_in_salesforce", "execute_soql_query"}

Init ==
    /\ op = "idle"
    /\ args = EmptyDict
    /\ callee = "idle"
    /\ cargs = EmptyDict
    /\ pc = "idle"
    /\ session = <<None, None>>
    /\ log = << >>
    /\ replies = << >>
    /\ ret = None
    /\ frame = EmptyDict
    /\ result = None

\* The caller invokes tool `name` with arguments a.
Invoke(name, a) ==
    /\ pc = "idle"
    /\ op' = name
    /\ args' = a
    /\ callee' = IF name = Lifecycle THEN "fetch_opportunities" ELSE name
    /\ cargs' = IF name = Lifecycle THEN EmptyDict ELSE a
    /\ pc' = "auth"
    /\ UNCHANGED <<session, log, replies, ret, frame, result>>

\* The workflow catching what the function it called raises and returning
\* it as an error text, the way the write tools report their failures.
Finish_caught_by_workflow(out) ==
    IF out.kind = "raise" \/ op = callee
    THEN /\ result' = IF out.kind = "raise" /\ op # callee
                      THEN Return([msg |-> "Error", error |-> out.value])
                      ELSE out
         /\ pc' = "done"
         /\ UNCHANGED ret
    ELSE /\ ret' = out.value
         /\ pc' = "returned"
         /\ UNCHANGED result

\* The callee ends with `out`: an exception leaves every frame (nothing
\* catches it), a value is the invocation's result or goes back to the workflow.
Finish(out) ==
    IF out.kind = "raise" \/ op = callee
    THEN /\ result' = out
         /\ pc' = "done"
         /\ UNCHANGED ret
    ELSE /\ ret' = out.value
         /\ pc' = "returned"
         /\ UNCHANGED result

\* access_token, instance_url = get_access_token()
Authenticate ==
    /\ pc = "auth"
    /\ \E response \in TokenResponses :
        LET out == IF callee \in SalesforceTool
                   THEN sf_get_access_token(response)
                   ELSE get_access_token(response)
        IN  /\ log' = Append(log, TokenRequest)
            /\ replies' = Append(replies, response)
            /\ IF out.kind = "return"
               THEN /\ session' = out.value
                    /\ pc' = "request"
                    /\ UNCHANGED <<ret, result>>
               ELSE /\ session' = session
                    /\ Finish(out)
    /\ UNCHANGED <<op, args, callee, cargs, frame>>

\* The callee's data request cannot be prepared: requests raises.
Unsendable ==
    /\ pc = "request"
    /\ NoScheme(session)
    /\ Finish(Raise(MissingSchema))
    /\ UNCHANGED <<op, args, callee, cargs, session, log, replies, frame>>

\* The callee sends req, gets response and ends with out.
Exchange(f, req, response, out) ==
    /\ pc = "request"
    /\ callee = f
    /\ ~NoScheme(session)
    /\ log' = Append(log, req)
    /\ replies' = Append(replies, response)
    /\ Finish(out)
    /\ UNCHANGED <<op, args, callee, cargs, session, frame>>

Step_fetch_case_comments ==
    \E response \in QueryResponses(CommentRows) :
        Exchange("fetch_case_comments",
                 ApiRequest("GET", session, "query", "", CaseCommentsQuery(cargs.case_number)),
                 response, fetch_case_comments(cargs.case_number, response))

Step_create_case_in_salesforce ==
    \E response \in WriteResponses :
        Exchange("create_case_in_salesforce",
                 ApiRequest("POST", session, "sobjects/Case/", "", CaseData(cargs)),
                 response, create_case_in_salesforce(cargs, response))

Step_delete_case_in_salesforce ==
    \E response \in WriteResponses :
        Exchange("delete_case_in_salesforce",
                 ApiRequest("DELETE", session, "sobjects/Case", cargs.case_id, ""),
                 response, delete_case_in_salesforce(cargs.case_id, response))

Step_execute_soql_query ==
    \E response \in QueryResponses(CommentRows) :
        Exchange("execute_soql_query",
                 ApiRequest("GET", session, "query", "", cargs.soql_query),
                 response, execute_soql_query(cargs.soql_query, response))

Step_fetch_opportunities ==
    \E response \in QueryResponses(OpportunityRows) :
        Exchange("fetch_opportunities",
                 ApiRequest("GET", session, "query", "", OpportunitiesQuery),
                 response, fetch_opportunities(response))

Step_fetch_opportunity_details ==
    /\ callee = "fetch_opportunity_details"
    /\ \E response \in OpportunityResponses(cargs.opportunity_id) :
        Exchange("fetch_opportunity_details",
                 ApiRequest("GET", session, "sobjects/Opportunity", cargs.opportunity_id, ""),
                 response, fetch_opportunity_details(cargs.opportunity_id, response))

Step_update_opportunity_stage ==
    \E response \in WriteResponses :
        Exchange("update_opportunity_stage",
                 ApiRequest("PATCH", session, "sobjects/Opportunity", cargs.opportunity_id,
                            [StageName |-> cargs.new_stage]),
                 response,
                 update_opportunity_stage(cargs.opportunity_id, cargs.new_stage, response))

Step_fetch_leads ==
    \E response \in QueryResponses(LeadRows) :
        Exchange("fetch_leads",
                 ApiRequest("GET", session, "query", "", LeadsQuery),
                 response, fetch_leads(response))

Step_get_lead_details ==
    /\ callee = "get_lead_details"
    /\ \E response \in LeadResponses(cargs.lead_id) :
        Exchange("get_lead_details",
                 ApiRequest("GET", session, "sobjects/Lead", cargs.lead_id, ""),
                 response, get_lead_details(cargs.lead_id, response))

Step_get_lead_email_info ==
    /\ callee = "get_lead_email_info"
    /\ \E response \in LeadResponses(cargs.lead_id) :
        Exchange("get_lead_email_info",
                 ApiRequest("GET", session, "sobjects/Lead", cargs.lead_id, ""),
                 response, get_lead_email_info(cargs.lead_id, response))

\* The workflow handing the session it has to the function it calls next,
\* which then sends its request without a token request of its own.
Continue_reusing_session(next) ==
    IF next.kind = "call"
    THEN /\ callee' = next.callee
         /\ cargs' = next.args
         /\ pc' = "request"
         /\ UNCHANGED result
    ELSE /\ result' = next
         /\ pc' = "done"
         /\ UNCHANGED <<callee, cargs>>

\* The workflow goes on with `next`: it returns, or it calls the next function.
Continue(next) ==
    IF next.kind = "call"
    THEN /\ callee' = next.callee
         /\ cargs' = next.args
         /\ pc' = "auth"
         /\ UNCHANGED result
    ELSE /\ result' = next
         /\ pc' = "done"
         /\ UNCHANGED <<callee, cargs>>

Workflow_after_fetch_opportunities ==
    /\ pc = "returned"
    /\ callee = "fetch_opportunities"
    /\ frame' = [formatted_opportunities |-> ret.formatted,
                 opportunity_options |-> ret.options]
    /\ Continue(validate_choice(args.opportunity_choice, ret))
    /\ UNCHANGED <<op, args, session, log, replies, ret>>

Workflow_after_fetch_opportunity_details ==
    /\ pc = "returned"
    /\ callee = "fetch_opportunity_details"
    /\ frame' = [formatted_opportunities |-> frame.formatted_opportunities,
                 opportunity_options |-> frame.opportunity_options,
                 opportunity_id |-> cargs.opportunity_id,
                 opportunity_details |-> ret]
    /\ Continue(check_current_stage(cargs.opportunity_id, args.new_stage, ret))
    /\ UNCHANGED <<op, args, session, log, replies, ret>>

Workflow_after_update_opportunity_stage ==
    /\ pc = "returned"
    /\ callee = "update_opportunity_stage"
    /\ result' = Return(enhanced_response(args.opportunity_choice, args.new_stage,
                                          frame.opportunity_details, ret))
    /\ pc' = "done"
    /\ UNCHANGED <<op, args, callee, cargs, session, log, replies, ret, frame>>

\* The caller has the result; the next invocation starts from nothing kept.
Reset ==
    /\ pc = "done"
    /\ op' = "idle"
    /\ args' = EmptyDict
    /\ callee' = "idle"
    /\ cargs' = EmptyDict
    /\ pc' = "idle"
    /\ session' = <<None, None>>
    /\ log' = << >>
    /\ replies' = << >>
    /\ ret' = None
    /\ frame' = EmptyDict
    /\ result' = None

Next ==
    \/ \E n \in CaseNumbers : Invoke("fetch_case_comments", [case_number |-> n])
    \/ \E f \in CaseFields : Invoke("create_case_in_salesforce", f)
    \/ \E c \in CaseIds : Invoke("delete_case_in_salesforce", [case_id |-> c])
    \/ \E q \in SoqlQueries : Invoke("execute_soql_query", [soql_query |-> q])
    \/ Invoke("fetch_opportunities", EmptyDict)
    \/ \E i \in OpportunityIds : Invoke("fetch_opportunity_details", [opportunity_id |-> i])
    \/ \E i \in OpportunityIds, s \in NewStages :
           Invoke("update_opportunity_stage", [opportunity_id |-> i, new_stage |-> s])
    \/ \E k \in Choices, s \in NewStages :
           Invoke(Lifecycle, [opportunity_choice |-> k, new_stage |-> s])
    \/ Invoke("fetch_leads", EmptyDict)
    \/ \E i \in LeadIds : Invoke("get_lead_details", [lead_id |-> i])
    \/ \E i \in LeadIds : Invoke("get_lead_email_info", [lead_id |-> i])
    \/ Authenticate
    \/ Unsendable
    \/ Step_fetch_case_comments
    \/ Step_create_case_in_salesforce
    \/ Step_delete_case_in_salesforce
    \/ Step_execute_soql_query
    \/ Step_fetch_opportunities
    \/ Step_fetch_opportunity_details
    \/ Step_update_opportunity_stage
    \/ Step_fetch_leads
    \/ Step_get_lead_details
    \/ Step_get_lead_email_info
    \/ Workflow_after_fetch_opportunities
    \/ Workflow_after_fetch_opportunity_details
    \/ Workflow_after_update_opportunity_stage
    \/ Reset

Spec == Init /\ [][Next]_vars


\* ---------------------------------------------------------- reading the log
IsTokenRequest(r) == r.base = AuthUrl
IsFetchById(r) == r.method = "GET" /\ r.path = "sobjects/Opportunity"
IsPatch(r) == r.method = "PATCH"

TokenRequests == {i \in DOMAIN log : IsTokenRequest(log[i])}
Fetches == {i \in DOMAIN log : IsFetchById(log[i])}
Patches == {i \in DOMAIN log : IsPatch(log[i])}

InLifecycle == op = Lifecycle

\* The workflow has unpacked fetch_opportunities' pair.
HasOptions == InLifecycle /\ "opportunity_options" \in DOMAIN frame

\* The workflow has the chosen opportunity's details.
HasDetails == InLifecycle /\ "opportunity_details" \in DOMAIN frame

\* The StageName the fetch-by-id of this invocation returned is new_stage.
StageAlreadySet ==
    /\ InLifecycle
    /\ \E i \in Fetches :
        /\ replies[i].status = 200
        /\ "StageName" \in DOMAIN replies[i].json
        /\ replies[i].json.StageName = args.new_stage

\* C1: in validate_and_update_lifecycle_transition, once the fetch-by-id of
\* the chosen opportunity has returned a StageName equal to new_stage, the
\* invocation sends no PATCH (update_opportunity_stage is never entered) and
\* ends by returning the "already set, no need to update" message.
C1_NoUpdateWhenStageUnchanged ==
    StageAlreadySet =>
        /\ Patches = {}
        /\ callee = "fetch_opportunity_details"
        /\ pc \in {"returned", "done"}
        /\ pc = "done" =>
            /\ result.kind = "return"
            /\ result.value.msg
                 = "The stage of the opportunity is already set. There's no need to update!"
            /\ result.value.new_stage = args.new_stage
            /\ Len(log) = 4

C1_Witness ==
    /\ StageAlreadySet
    /\ pc = "done"
    /\ result.kind = "return"
    /\ result.value.new_stage = "Closed Won"
    /\ args.opportunity_choice = 2


InvalidOptionMsg == "Invalid option selected. Please choose a valid option."

\* The choice is no key of the option mapping the workflow built.
InvalidChoice ==
    HasOptions /\ args.opportunity_choice \notin DOMAIN frame.opportunity_options

\* C2 as stated: a choice that is no key of the option mapping ends the
\* invocation with the invalid-option message and without any network call.
C2_InvalidChoiceNoNetwork ==
    InvalidChoice =>
        /\ pc = "done"
        /\ result.kind = "return"
        /\ result.value.msg = InvalidOptionMsg
        /\ log = << >>

\* C2, amended: a choice that is no key of the option mapping ends the
\* invocation right after the list step: it returns the invalid-option
\* message when the mapping is not empty and fetch_opportunities' own message
\* when it is empty, and the only requests of the invocation are the list
\* step's token request and query (no fetch-by-id, no PATCH, no second token
\* request).
C2_InvalidChoiceStopsAfterList ==
    InvalidChoice =>
        /\ pc = "done"
        /\ result.kind = "return"
        /\ frame.opportunity_options # << >> => result.value.msg = InvalidOptionMsg
        /\ frame.opportunity_options = << >> =>
               result.value = frame.formatted_opportunities
        /\ Len(log) = 2
        /\ IsTokenRequest(log[1])
        /\ log[2].method = "GET" /\ log[2].path = "query"
        /\ Fetches = {} /\ Patches = {}

C2_Witness ==
    /\ InvalidChoice
    /\ Len(frame.opportunity_options) = 2
    /\ args.opportunity_choice = 3
    /\ pc = "done"
    /\ result.value.msg = InvalidOptionMsg

\* The choice is a key and the stage read differs from new_stage: the case
\* in which the workflow goes on to the update.
UpdateDue ==
    /\ HasDetails
    /\ args.opportunity_choice \in DOMAIN frame.opportunity_options
    /\ current_stage_of(frame.opportunity_details) # args.new_stage

\* The Id the list query returned at position k.
ListedId(k) == replies[2].json.records[k].Id

\* One fetch-by-id, for the listed Id of the choice.
OneFetchOfChoice ==
    /\ Cardinality(Fetches) = 1
    /\ \A f \in Fetches : log[f].id = ListedId(args.opportunity_choice)

\* One PATCH, after the fetch, on the same Id, setting StageName = new_stage;
\* the returned text carries new_stage and the update's outcome unchanged.
OnePatchAndOutcome ==
    /\ Cardinality(Patches) = 1
    /\ \A f \in Fetches, p \in Patches :
        /\ f < p
        /\ log[p].id = log[f].id
        /\ log[p].payload = [StageName |-> args.new_stage]
        /\ result.kind = "return"
        /\ result.value.msg = "Opportunity Lifecycle Transition"
        /\ result.value.new_stage = args.new_stage
        /\ replies[p].status = 204 =>
               result.value.action = [msg |-> "Opportunity stage successfully updated",
                                      new_stage |-> args.new_stage]
        /\ replies[p].status # 204 =>
               result.value.action = [msg |-> "Failed to update stage",
                                      status |-> replies[p].status,
                                      text |-> replies[p].text]

\* C3 as stated: with a valid choice and a current stage other than
\* new_stage the finished invocation has sent one fetch-by-id for the listed
\* Id, then one PATCH on it with StageName = new_stage, and returned a text
\* with new_stage and the update outcome.
C3_UpdateAlwaysSent ==
    (UpdateDue /\ pc = "done") => (OneFetchOfChoice /\ OnePatchAndOutcome)

\* The token request of the update step (the invocation's fifth request) was
\* answered 200 with an instance_url.
UpdateAuthenticated ==
    /\ Len(log) >= 5
    /\ replies[5].status = 200
    /\ "instance_url" \in DOMAIN replies[5].json

\* C3, amended: with a valid choice and a current stage other than new_stage
\* the invocation sends one fetch-by-id for the listed Id and never more than
\* one PATCH; when it has finished and the update step's token request was
\* answered 200 with an instance_url, it has sent exactly one PATCH, after
\* the fetch, on the same Id with StageName = new_stage, and returned a text
\* with new_stage and the update outcome unchanged; otherwise (that token
\* request answered another status, or 200 without an instance_url) it has
\* sent no PATCH and ended by raising.
C3_UpdateSentWhenAuthenticated ==
    UpdateDue =>
        /\ OneFetchOfChoice
        /\ Cardinality(Patches) <= 1
        /\ pc = "done" =>
            IF UpdateAuthenticated
            THEN OnePatchAndOutcome
            ELSE Patches = {} /\ result.kind = "raise"

C3_Witness ==
    /\ UpdateDue
    /\ pc = "done"
    /\ UpdateAuthenticated
    /\ args.opportunity_choice = 2
    /\ Cardinality(Patches) = 1
    /\ replies[6].status = 204
    /\ result.value.new_stage = "Closed Won"


\* The last token request of the invocation, and whether its answer gave a
\* session a request can be sent with.
LastToken == CHOOSE i \in TokenRequests : \A j \in TokenRequests : j <= i

Authenticated(i) ==
    replies[i].status = 200 /\ "instance_url" \in DOMAIN replies[i].json

\* The running function has ended: with its data request answered when the
\* log ends with that request.
Ended == pc \in {"returned", "done"}
Answered == Ended /\ TokenRequests # {} /\ Len(log) = LastToken + 1
Answer == replies[Len(log)]

\* C4: get_access_token (both modules) raises on every status but 200, with
\* an error that carries the status and the body of the response unchanged,
\* and nothing is sent after it; it returns the pair
\* (access_token, instance_url) of the body only on 200.
C4_TokenErrorPassesThrough ==
    /\ \A i \in TokenRequests :
        replies[i].status # 200 =>
            /\ i = Len(log)
            /\ pc = "done"
            /\ result.kind = "raise"
            /\ result.value.type = "Exception"
            /\ result.value.msg = "Error fetching access token"
            /\ result.value.status = replies[i].status
            /\ result.value.text = replies[i].text
    /\ pc = "request" =>
        /\ Len(log) \in TokenRequests
        /\ replies[Len(log)].status = 200
        /\ session = <<Get(replies[Len(log)].json, "access_token", None),
                       Get(replies[Len(log)].json, "instance_url", None)>>

C4_Witness ==
    /\ op = "update_opportunity_stage"
    /\ pc = "done"
    /\ Len(log) = 1
    /\ replies[1].status = 404
    /\ replies[1].text = "INVALID_SESSION_ID"
    /\ result.kind = "raise"
    /\ result.value.text = "INVALID_SESSION_ID"

ListTools == {"fetch_opportunities", "fetch_leads"}

\* What the list tool returned: to the caller, or to the workflow.
ListOutput == IF op = callee THEN result.value ELSE ret

\* C5: a 200 query answer with N >= 1 records makes fetch_opportunities and
\* fetch_leads return N options labelled 1..N in the order of the records,
\* and an option mapping whose keys are exactly 1..N, key i mapped to the Id
\* of the i-th record.
C5_OptionsFollowRecords ==
    (/\ callee \in ListTools
     /\ Answered
     /\ Answer.status = 200
     /\ "records" \in DOMAIN Answer.json
     /\ Answer.json.records # << >>) =>
        LET records == Answer.json.records
            N == Len(records)
            out == ListOutput
        IN  /\ DOMAIN out.options = 1..N
            /\ \A i \in 1..N : out.options[i] = records[i].Id
            /\ DOMAIN out.formatted.entries = 1..N
            /\ \A i \in 1..N :
                /\ out.formatted.entries[i].option = i
                /\ callee = "fetch_opportunities" =>
                       out.formatted.entries[i].name = records[i].Name
                /\ callee = "fetch_leads" =>
                       out.formatted.entries[i].last_name = records[i].LastName

C5_Witness ==
    /\ op = "fetch_opportunities"
    /\ pc = "done"
    /\ Answered
    /\ Answer.status = 200
    /\ "records" \in DOMAIN Answer.json
    /\ Len(Answer.json.records) = 2
    /\ Answer.json.records[1].Id = "006B"
    /\ result.value.options = <<"006B", "006A">>

QueryTools == ListTools \cup {"fetch_case_comments"}

NoRecordsMsg(tool) ==
    CASE tool = "fetch_opportunities" -> "No opportunities found."
      [] tool = "fetch_leads" -> "No leads found."
      [] tool = "fetch_case_comments" -> "No comments found for this case number."

\* The query was answered 200 with an empty records array or with none.
EmptyAnswer ==
    /\ callee \in QueryTools
    /\ Answered
    /\ Answer.status = 200
    /\ ("records" \notin DOMAIN Answer.json \/ Answer.json.records = << >>)

QueryOutput == IF op = callee THEN result.value ELSE ret

\* In the workflow an empty answer ends the invocation with the message, and
\* neither a fetch-by-id nor a PATCH is sent.
EmptyEndsLifecycle ==
    (InLifecycle /\ EmptyAnswer) =>
        /\ Len(log) = 2
        /\ Fetches = {} /\ Patches = {}
        /\ pc = "done" =>
               result = Return([msg |-> NoRecordsMsg("fetch_opportunities")])

\* C6 as stated: for opportunities, leads and case comments alike an empty
\* or absent records array gives the fixed message and an empty option
\* mapping.
C6_EmptyGivesMessageAndEmptyMapping ==
    /\ EmptyAnswer =>
        /\ "formatted" \in DOMAIN QueryOutput
        /\ "options" \in DOMAIN QueryOutput
        /\ QueryOutput.formatted = [msg |-> NoRecordsMsg(callee)]
        /\ QueryOutput.options = << >>
    /\ EmptyEndsLifecycle

\* C6, amended: an empty or absent records array gives, from
\* fetch_opportunities and fetch_leads, the pair of their fixed message and
\* an empty option mapping, and from fetch_case_comments its fixed message
\* alone (that tool returns a text, never a mapping); in the workflow it ends
\* the invocation with the message and without fetch-by-id or PATCH.
C6_EmptyGivesMessage ==
    /\ (EmptyAnswer /\ callee \in ListTools) =>
        /\ DOMAIN QueryOutput = {"formatted", "options"}
        /\ QueryOutput.formatted = [msg |-> NoRecordsMsg(callee)]
        /\ QueryOutput.options = << >>
    /\ (EmptyAnswer /\ callee = "fetch_case_comments") =>
        /\ "options" \notin DOMAIN QueryOutput
        /\ QueryOutput = [msg |-> NoRecordsMsg(callee)]
    /\ EmptyEndsLifecycle

C6_Witness ==
    /\ InLifecycle
    /\ EmptyAnswer
    /\ "records" \notin DOMAIN Answer.json
    /\ pc = "done"
    /\ result.value.msg = "No opportunities found."

WriteTools ==
    {"create_case_in_salesforce", "delete_case_in_salesforce", "update_opportunity_stage"}

SuccessCode(tool) ==
    CASE tool = "create_case_in_salesforce" -> 201
      [] tool = "delete_case_in_salesforce" -> 204
      [] tool = "update_opportunity_stage" -> 204

SuccessMsg(tool) ==
    CASE tool = "create_case_in_salesforce" -> "Case Created Successfully!"
      [] tool = "delete_case_in_salesforce" -> "Case was deleted successfully!"
      [] tool = "update_opportunity_stage" -> "Opportunity stage successfully updated"

ErrorMsg(tool) ==
    CASE tool = "create_case_in_salesforce" -> "Error creating case"
      [] tool = "delete_case_in_salesforce" -> "Error deleting the case"
      [] tool = "update_opportunity_stage" -> "Failed to update stage"

\* How the write tool ended: for its caller, or inside the workflow (whose
\* response carries the update's message as its action).
WriteOutcome ==
    IF op = callee THEN result
    ELSE IF pc = "returned" THEN Return(ret)
    ELSE IF result.kind = "return" THEN Return(result.value.action)
    ELSE result

\* C7: after a token answer of 200 that names the instance, create Case,
\* delete Case and update Opportunity stage send their request and return
\* (never raise): the success confirmation exactly when the status is the
\* tool's success code (201, 204, 204), otherwise the error text with the
\* status and the body of the response.
C7_WriteReturnsByStatus ==
    (/\ callee \in WriteTools
     /\ Ended
     /\ TokenRequests # {}
     /\ Authenticated(LastToken)) =>
        /\ Len(log) = LastToken + 1
        /\ WriteOutcome.kind = "return"
        /\ (Answer.status = SuccessCode(callee))
               <=> (WriteOutcome.value.msg = SuccessMsg(callee))
        /\ Answer.status # SuccessCode(callee) =>
            /\ WriteOutcome.value.msg = ErrorMsg(callee)
            /\ WriteOutcome.value.status = Answer.status
            /\ WriteOutcome.value.text = Answer.text

C7_Witness ==
    /\ op = "delete_case_in_salesforce"
    /\ pc = "done"
    /\ Answered
    /\ Answer.status = 404
    /\ result.kind = "return"
    /\ result.value.status = 404
    /\ result.value.case_id = "500Z"

FetchByIdTools ==
    {"fetch_opportunity_details", "get_lead_details", "get_lead_email_info"}

\* C9 as stated: fetch_opportunity_details, get_lead_details and
\* get_lead_email_info return on a 200 and raise, with the status and the
\* body, on every other status; none returns an error text.
C9_FetchByIdRaisesOnError ==
    (callee \in FetchByIdTools /\ Answered) =>
        /\ Answer.status = 200 => (pc = "returned" \/ result.kind = "return")
        /\ Answer.status # 200 =>
            /\ pc = "done"
            /\ result.kind = "raise"
            /\ result.value.status = Answer.status
            /\ result.value.text = Answer.text

\* C10 as stated: a token answer of 200 without access_token is fatal: no
\* data request follows it and the invocation ends in an error.
C10_MissingTokenIsFatal ==
    \A i \in TokenRequests :
        (replies[i].status = 200 /\ "access_token" \notin DOMAIN replies[i].json) =>
            /\ Len(log) = i
            /\ pc = "done" => result.kind = "raise"


DataRequests == DOMAIN log \ TokenRequests

\* The request right before data request i is a token request answered 200,
\* and request i goes to the instance and carries the token of that answer
\* (None when the answer has none).
OwnToken(i) ==
    /\ i - 1 \in TokenRequests
    /\ replies[i - 1].status = 200
    /\ log[i].auth = Get(replies[i - 1].json, "access_token", None)
    /\ log[i].base = Get(replies[i - 1].json, "instance_url", None)

\* C11: every data request (query, fetch-by-id, POST, PATCH, DELETE) comes
\* right after a token request of the same function and uses the token that
\* request obtained, never the token of an earlier step; token requests and
\* data requests alternate, and an invocation of the workflow that has sent
\* its PATCH has made exactly three token requests, the first, third and
\* fifth request, each right before the data request of its step.
C11_EachRequestAuthenticatesItself ==
    /\ \A i \in DataRequests : OwnToken(i)
    /\ \A i \in TokenRequests : i > 1 => i - 1 \in DataRequests
    /\ (InLifecycle /\ Patches # {}) =>
        /\ TokenRequests = {1, 3, 5}
        /\ log[2].path = "query"
        /\ Fetches = {4}
        /\ Patches = {6}

C11_Witness ==
    /\ InLifecycle
    /\ pc = "done"
    /\ Patches = {6}
    /\ replies[1].json = [access_token |-> "tokA", instance_url |-> InstanceUrl]
    /\ replies[3].json = [access_token |-> "tokB", instance_url |-> InstanceUrl]
    /\ replies[5].json = [access_token |-> "tokA", instance_url |-> InstanceUrl]
    /\ log[4].auth = "tokB"
    /\ log[6].auth = "tokA"


\* Request i of the workflow failed: a token request, or the fetch-by-id,
\* answered with another status than 200.
FailedStep(i) ==
    /\ InLifecycle
    /\ i \in TokenRequests \cup Fetches
    /\ replies[i].status # 200

\* C12: in validate_and_update_lifecycle_transition a token request of any
\* step or the fetch-by-id answered with a status other than 200 ends the
\* invocation with the exception raised for it (status and body in it),
\* which no frame catches; the failed request is the last request of the
\* invocation (none follows, none is sent again) and no PATCH is sent.
C12_FailurePropagates ==
    \A i \in DOMAIN log :
        FailedStep(i) =>
            /\ i = Len(log)
            /\ pc = "done"
            /\ result.kind = "raise"
            /\ result.value.type = "Exception"
            /\ result.value.msg =
                   (IF i \in TokenRequests THEN "Error fetching access token"
                    ELSE "Error fetching opportunity details")
            /\ result.value.status = replies[i].status
            /\ result.value.text = replies[i].text
            /\ Patches = {}
            /\ Cardinality(Fetches) <= 1
            /\ Cardinality(TokenRequests) = (i + 1) \div 2

C12_Witness ==
    /\ FailedStep(4)
    /\ replies[4].status = 404
    /\ pc = "done"
    /\ result.kind = "raise"
    /\ result.value.msg = "Error fetching opportunity details"

====
